---- MODULE Spec2Model ----
(***************************************************************************)
(* Model of src/demo.py: the page-by-page book analysis pipeline.          *)
(* One process invocation runs main(): confirmation prompt, directory      *)
(* setup, loading of the knowledge base, then the loop over the pages with *)
(* process_page, the interval analysis and the final analysis.  The disk   *)
(* (knowledge file, summaries directory, staged document) outlives a       *)
(* process; the in-memory state does not.                                  *)
(* A second specification, SpecWriter, drives save_summary alone against   *)
(* a summaries directory that is never wiped.  A third, SpecStore, drives  *)
(* save_knowledge_base and load_existing_knowledge on the characters that  *)
(* json.dump writes and json.load reads.                                   *)
(***************************************************************************)
EXTENDS Integers, Sequences, FiniteSets

\* ---------------------------------------------------------------- bounds
MaxPages == 2       \* page counts, caps and intervals of the small documents
MaxRuns == 2        \* process invocations against the same directories
MaxTime == 1        \* distinct values of datetime.now() seen by save_summary
MaxWrites == 3      \* save_summary calls with text, per kind, in SpecWriter
MaxNum == 2         \* highest file number left in the directory before SpecWriter
MaxList == 2        \* knowledge strings in a list saved in SpecStore
MaxChars == 3       \* characters, over all strings, of such a list

\* --------------------------------------------- configuration as shipped
DefaultInterval == 20
DefaultTestPages == 60

None == -1          \* Python's None for the two optional settings

VARIABLES
    ANALYSIS_INTERVAL,  \* interval size, None to disable
    TEST_PAGES,         \* page-count cap, None for the entire document
    page_count,         \* pdf_document.page_count
    pc,                 \* position of the process in main
    run,                \* number of the process invocation
    page_num,           \* loop variable of main
    pages_to_process,   \* local of main, None before it is computed
    knowledge_base,     \* local of main: the in-memory list
    knowledge_file,     \* the knowledge JSON on disk
    summaries,          \* the summaries directory: file name -> content
    pdf_staged,         \* PDF_PATH.exists()
    source_pdf,         \* Path(PDF_NAME).exists()
    error,              \* the exception that ended the run, "" if none
    results,            \* history: classifier answers of this run, in order
    extracted,          \* history: page indices read with get_text
    triggers,           \* history: analyze_knowledge_base calls <<page, kind>>
    produced,           \* history: summary files written <<page, kind>>
    remote_summaries,   \* history: remote summarization calls of this run
    blank_reply,        \* history: the remote summarizer answered ""
    saved_pages,        \* history: pages whose save has completed this run
    prev_summaries,     \* history: the summaries directory when the previous run ended
    written,            \* history: files written per kind
    from_empty,         \* history: SpecWriter started from an empty directory
    last_call,          \* history: arguments of the latest save_summary call
    json_text           \* SpecStore: the characters of the knowledge file

cfg == <<ANALYSIS_INTERVAL, TEST_PAGES, page_count>>
proc == <<pc, page_num, pages_to_process, knowledge_base, error>>
disk == <<knowledge_file, summaries, pdf_staged, source_pdf>>
hist == <<results, extracted, triggers, produced, remote_summaries,
          blank_reply, saved_pages, written, last_call>>
vars == <<cfg, proc, disk, hist, run, prev_summaries, from_empty, json_text>>

\* ------------------------------------------------------------ data values
\* the knowledge file: missing, opened for writing with nothing on disk yet,
\* or holding the JSON object {"knowledge": [...]}
Absent == [exists |-> FALSE, valid |-> FALSE, knowledge |-> <<>>]
Truncated == [exists |-> TRUE, valid |-> FALSE, knowledge |-> <<>>]
JsonFile(knowledge) == [exists |-> TRUE, valid |-> TRUE, knowledge |-> knowledge]

Min(a, b) == IF a < b THEN a ELSE b

PageContent ==
    { [has_content |-> TRUE,  knowledge |-> <<"a", "b">>],
      [has_content |-> TRUE,  knowledge |-> <<"c">>],
      [has_content |-> FALSE, knowledge |-> <<"d">>],
      [has_content |-> FALSE, knowledge |-> <<>>] }

NoContent == [has_content |-> FALSE, knowledge |-> <<>>]

\* Answers the classifier may give for page p.  Documents longer than
\* MaxPages get a free answer on their first page only.
ClassifierAnswers(p) ==
    IF page_count <= MaxPages \/ p = 0 THEN PageContent ELSE {NoContent}

Texts == {"S"}              \* non-empty replies of the remote summarizer
Times == 1..MaxTime

NoCall == [summary |-> "-", is_final |-> FALSE]

\* ------------------------------------------------------- pure functions
Truthy(x) == x # None /\ x # 0

PagesToProcess == IF TEST_PAGES # None THEN TEST_PAGES ELSE page_count

\* variant: the cap is ignored
LoopLimit_WholeDocument == page_count

LoopLimit == Min(pages_to_process, page_count)

IsInterval(p) == (p + 1) % ANALYSIS_INTERVAL = 0

IsFinalPage(p) == p + 1 = pages_to_process

\* variant: the has_content flag is ignored
Contribution_Unfiltered(result) == result.knowledge

Contribution(result) ==
    IF result.has_content THEN result.knowledge ELSE <<>>

\* {n:03d}: decimal digits, padded with zeros to at least three
RECURSIVE Digits(_)
Digits(n) == IF n < 10 THEN <<n>> ELSE Append(Digits(n \div 10), n % 10)

Format03d(n) ==
    LET d == Digits(n)
    IN  IF Len(d) = 1 THEN <<0, 0>> \o d
        ELSE IF Len(d) = 2 THEN <<0>> \o d
        ELSE d

Kind(is_final) == IF is_final THEN "final" ELSE "interval"

SummaryPath(is_final, n) == <<Kind(is_final), Format03d(n)>>

\* variant: one counter for both kinds
Glob_AnyKind(dir, is_final) == DOMAIN dir

Glob(dir, is_final) == {f \in DOMAIN dir : f[1] = Kind(is_final)}

NextNumber(dir, is_final) == Cardinality(Glob(dir, is_final)) + 1

MarkdownContent(summary, now) ==
    [title |-> "meditations.pdf", generated |-> now, body |-> summary]

\* variant: only the latest summary is kept
WriteFile_KeepLatest(dir, path, content) == [f \in {path} |-> content]

WriteFile(dir, path, content) ==
    [f \in DOMAIN dir \cup {path} |-> IF f = path THEN content ELSE dir[f]]

\* variant: no early return for an empty summary
save_summary_NoSkip(dir, summary, is_final, now) ==
    WriteFile(dir, SummaryPath(is_final, NextNumber(dir, is_final)),
              MarkdownContent(summary, now))

save_summary(dir, summary, is_final, now) ==
    IF summary = "" THEN dir
    ELSE WriteFile(dir, SummaryPath(is_final, NextNumber(dir, is_final)),
                   MarkdownContent(summary, now))

EmptyDir == [f \in {} |-> 0]

\* ------------------------------------------------------------------ Init
Fresh ==
    /\ page_num = 0
    /\ pages_to_process = None
    /\ knowledge_base = <<>>
    /\ error = ""
    /\ results = <<>>
    /\ extracted = <<>>
    /\ triggers = {}
    /\ produced = {}
    /\ remote_summaries = 0
    /\ blank_reply = FALSE
    /\ saved_pages = 0
    /\ written = [interval |-> 0, final |-> 0]
    /\ last_call = NoCall

SmallConfigs ==
    { <<k, t, n>> : k \in {None} \cup (0..MaxPages),
                    t \in {None} \cup (0..(MaxPages + 1)),
                    n \in 1..MaxPages }

ScenarioConfigs ==
    { <<DefaultInterval, t, DefaultTestPages>> :
          t \in {DefaultTestPages, DefaultTestPages + 1} }

Init ==
    /\ \E c \in SmallConfigs \cup ScenarioConfigs :
           /\ ANALYSIS_INTERVAL = c[1]
           /\ TEST_PAGES = c[2]
           /\ page_count = c[3]
    /\ pc = "prompt"
    /\ run = 1
    /\ Fresh
    /\ knowledge_file = Absent
    /\ summaries = EmptyDir
    /\ \E d \in {<<TRUE, FALSE>>, <<FALSE, TRUE>>, <<FALSE, FALSE>>} :
           /\ pdf_staged = d[1]
           /\ source_pdf = d[2]
    /\ prev_summaries = EmptyDir
    /\ from_empty = TRUE
    /\ json_text = <<>>

\* ------------------------------------------------------------ main, 209-223
\* input() returns
Confirm ==
    /\ pc = "prompt"
    /\ pc' = "setup"
    /\ UNCHANGED <<cfg, page_num, pages_to_process, knowledge_base, error,
                   disk, hist, run, prev_summaries, from_empty, json_text>>
\* variant: the prompt comes after the directories were cleared
Cancel_AfterClearing ==
    /\ pc = "prompt"
    /\ pc' = "cancelled"
    /\ knowledge_file' = Absent
    /\ summaries' = EmptyDir
    /\ UNCHANGED <<cfg, page_num, pages_to_process, knowledge_base, error,
                   pdf_staged, source_pdf, hist, run, prev_summaries,
                   from_empty, json_text>>

\* KeyboardInterrupt at the prompt
Cancel ==
    /\ pc = "prompt"
    /\ pc' = "cancelled"
    /\ UNCHANGED <<cfg, page_num, pages_to_process, knowledge_base, error,
                   disk, hist, run, prev_summaries, from_empty, json_text>>
\* variant: the document is taken to be in place
setup_directories_NoSourceTest ==
    /\ pc = "setup"
    /\ knowledge_file' = Absent
    /\ summaries' = EmptyDir
    /\ pc' = "load"
    /\ UNCHANGED <<cfg, page_num, pages_to_process, knowledge_base, error,
                   pdf_staged, source_pdf, hist, run, prev_summaries,
                   from_empty, json_text>>
\* variant: the output directories are not cleared
setup_directories_NoClearing ==
    /\ pc = "setup"
    /\ IF pdf_staged
       THEN pc' = "load" /\ error' = error /\ pdf_staged' = pdf_staged
       ELSE IF source_pdf
            THEN pc' = "load" /\ error' = error /\ pdf_staged' = TRUE
            ELSE pc' = "raised" /\ error' = "FileNotFoundError"
                 /\ pdf_staged' = pdf_staged
    /\ UNCHANGED <<cfg, page_num, pages_to_process, knowledge_base,
                   knowledge_file, summaries, source_pdf, hist, run,
                   prev_summaries, from_empty, json_text>>

setup_directories ==
    /\ pc = "setup"
    /\ knowledge_file' = Absent
    /\ summaries' = EmptyDir
    /\ IF pdf_staged
       THEN pc' = "load" /\ error' = error /\ pdf_staged' = pdf_staged
       ELSE IF source_pdf
            THEN pc' = "load" /\ error' = error /\ pdf_staged' = TRUE
            ELSE pc' = "raised" /\ error' = "FileNotFoundError"
                 /\ pdf_staged' = pdf_staged
    /\ UNCHANGED <<cfg, page_num, pages_to_process, knowledge_base,
                   source_pdf, hist, run, prev_summaries, from_empty, json_text>>

load_existing_knowledge ==
    /\ pc = "load"
    /\ IF ~knowledge_file.exists
       THEN knowledge_base' = <<>> /\ pc' = "open" /\ error' = error
       ELSE IF ~knowledge_file.valid
            THEN knowledge_base' = knowledge_base /\ pc' = "raised"
                 /\ error' = "JSONDecodeError"
            ELSE knowledge_base' = knowledge_file.knowledge /\ pc' = "open"
                 /\ error' = error
    /\ UNCHANGED <<cfg, page_num, pages_to_process, disk, hist, run,
                   prev_summaries, from_empty, json_text>>

\* fitz.open and the computation of pages_to_process
OpenDocument ==
    /\ pc = "open"
    /\ pages_to_process' = PagesToProcess
    /\ page_num' = 0
    /\ pc' = "loop"
    /\ UNCHANGED <<cfg, knowledge_base, error, disk, hist, run,
                   prev_summaries, from_empty, json_text>>

\* ------------------------------------------------------------ main, 227-249
\* for page_num in range(min(pages_to_process, pdf_document.page_count))
ForLoop ==
    /\ pc = "loop"
    /\ pc' = IF page_num < LoopLimit THEN "extract" ELSE "done"
    /\ UNCHANGED <<cfg, page_num, pages_to_process, knowledge_base, error,
                   disk, hist, run, prev_summaries, from_empty, json_text>>

\* page.get_text()
Extract ==
    /\ pc = "extract"
    /\ extracted' = Append(extracted, page_num)
    /\ pc' = "classify"
    /\ UNCHANGED <<cfg, page_num, pages_to_process, knowledge_base, error,
                   disk, results, triggers, produced, remote_summaries,
                   blank_reply, saved_pages, written, last_call, run,
                   prev_summaries, from_empty, json_text>>

\* process_page, 47-87: the remote classification returns
Classify ==
    /\ pc = "classify"
    /\ \E result \in ClassifierAnswers(page_num) :
           results' = Append(results, result)
    /\ pc' = "save"
    /\ UNCHANGED <<cfg, page_num, pages_to_process, knowledge_base, error,
                   disk, extracted, triggers, produced, remote_summaries,
                   blank_reply, saved_pages, written, last_call, run,
                   prev_summaries, from_empty, json_text>>
\* variant: a failed page is skipped and the loop goes on
ClassifyFails_SkipPage ==
    /\ pc = "classify"
    /\ pc' = "loop"
    /\ page_num' = page_num + 1
    /\ error' = "ClassifierError"
    /\ UNCHANGED <<cfg, pages_to_process, knowledge_base, disk, hist, run,
                   prev_summaries, from_empty, json_text>>

\* process_page, 47-87: the remote classification raises
ClassifyFails ==
    /\ pc = "classify"
    /\ pc' = "raised"
    /\ error' = "ClassifierError"
    /\ UNCHANGED <<cfg, page_num, pages_to_process, knowledge_base, disk,
                   hist, run, prev_summaries, from_empty, json_text>>

\* process_page 93-96 up to open(output_path, 'w'), which empties the file
SaveOpen ==
    /\ pc = "save"
    /\ knowledge_file' = Truncated
    /\ pc' = "dump"
    /\ UNCHANGED <<cfg, page_num, pages_to_process, knowledge_base, error,
                   summaries, pdf_staged, source_pdf, hist, run,
                   prev_summaries, from_empty, json_text>>
\* variant: the list returned by process_page is not assigned in main
SaveDump_ResultDropped ==
    /\ pc = "dump"
    /\ knowledge_file' =
           JsonFile(knowledge_base \o Contribution(results[Len(results)]))
    /\ saved_pages' = saved_pages + 1
    /\ pc' = "interval"
    /\ UNCHANGED <<cfg, page_num, pages_to_process, knowledge_base, error,
                   summaries, pdf_staged, source_pdf, results, extracted,
                   triggers, produced, remote_summaries, blank_reply, written,
                   last_call, run, prev_summaries, from_empty, json_text>>

\* json.dump and close, the return of process_page and the assignment in 231
SaveDump ==
    /\ pc = "dump"
    /\ LET updated_knowledge ==
               knowledge_base \o Contribution(results[Len(results)])
       IN  /\ knowledge_file' = JsonFile(updated_knowledge)
           /\ knowledge_base' = updated_knowledge
    /\ saved_pages' = saved_pages + 1
    /\ pc' = "interval"
    /\ UNCHANGED <<cfg, page_num, pages_to_process, error, summaries,
                   pdf_staged, source_pdf, results, extracted, triggers,
                   produced, remote_summaries, blank_reply, written,
                   last_call, run, prev_summaries, from_empty, json_text>>

\* variant: the empty list is not tested
AnalysisReplies_NoGuard(kb) == Texts \cup {""}

\* analyze_knowledge_base: "" without a remote call for an empty list
AnalysisReplies(kb) == IF kb = <<>> THEN {""} ELSE Texts \cup {""}

\* analyze_knowledge_base followed by save_summary
AnalyzeAndSave(is_final) ==
    \E text \in AnalysisReplies(knowledge_base), now \in Times :
        /\ summaries' = save_summary(summaries, text, is_final, now)
        /\ triggers' = triggers \cup {<<page_num, Kind(is_final)>>}
        /\ produced' = IF summaries' # summaries
                       THEN produced \cup {<<page_num, Kind(is_final)>>}
                       ELSE produced
        /\ written' = IF summaries' # summaries
                      THEN [written EXCEPT ![Kind(is_final)] = @ + 1]
                      ELSE written
        /\ remote_summaries' = IF knowledge_base # <<>>
                               THEN remote_summaries + 1 ELSE remote_summaries
        /\ blank_reply' = (blank_reply \/ (knowledge_base # <<>> /\ text = ""))
        /\ last_call' = [summary |-> text, is_final |-> is_final]

IntervalDue ==
    /\ Truthy(ANALYSIS_INTERVAL)
    /\ IsInterval(page_num)
    /\ ~IsFinalPage(page_num)

FinalDue == page_num + 1 = pages_to_process

IntervalSkip ==
    /\ pc = "interval"
    /\ ~IntervalDue
    /\ pc' = "final"
    /\ UNCHANGED <<cfg, page_num, pages_to_process, knowledge_base, error,
                   disk, hist, run, prev_summaries, from_empty, json_text>>

IntervalAnalysis ==
    /\ pc = "interval"
    /\ IntervalDue
    /\ AnalyzeAndSave(FALSE)
    /\ pc' = "final"
    /\ UNCHANGED <<cfg, page_num, pages_to_process, knowledge_base, error,
                   knowledge_file, pdf_staged, source_pdf, results, extracted,
                   saved_pages, run, prev_summaries, from_empty, json_text>>

FinalSkip ==
    /\ pc = "final"
    /\ ~FinalDue
    /\ page_num' = page_num + 1
    /\ pc' = "loop"
    /\ UNCHANGED <<cfg, pages_to_process, knowledge_base, error, disk, hist,
                   run, prev_summaries, from_empty, json_text>>

FinalAnalysis ==
    /\ pc = "final"
    /\ FinalDue
    /\ AnalyzeAndSave(TRUE)
    /\ page_num' = page_num + 1
    /\ pc' = "loop"
    /\ UNCHANGED <<cfg, pages_to_process, knowledge_base, error,
                   knowledge_file, pdf_staged, source_pdf, results, extracted,
                   saved_pages, run, prev_summaries, from_empty, json_text>>

\* the remote summarization raises, at either trigger
AnalysisFails ==
    /\ \/ pc = "interval" /\ IntervalDue
       \/ pc = "final" /\ FinalDue
    /\ knowledge_base # <<>>
    /\ triggers' = triggers \cup
                     {<<page_num, IF pc = "final" THEN "final" ELSE "interval">>}
    /\ remote_summaries' = remote_summaries + 1
    /\ pc' = "raised"
    /\ error' = "SummarizerError"
    /\ UNCHANGED <<cfg, page_num, pages_to_process, knowledge_base, disk,
                   results, extracted, produced, blank_reply, saved_pages,
                   written, last_call, run, prev_summaries, from_empty, json_text>>

\* ------------------------------------------------------ the environment
Running == {"prompt", "setup", "load", "open", "loop", "extract", "classify",
            "save", "dump", "interval", "final"}

Ended == {"done", "cancelled", "raised", "killed"}

\* the process is killed
Kill ==
    /\ pc \in Running
    /\ pc' = "killed"
    /\ UNCHANGED <<cfg, page_num, pages_to_process, knowledge_base, error,
                   disk, hist, run, prev_summaries, from_empty, json_text>>

\* the script is started again against the same directories
Rerun ==
    /\ pc \in Ended
    /\ run < MaxRuns
    /\ run' = run + 1
    /\ pc' = "prompt"
    /\ page_num' = 0
    /\ pages_to_process' = None
    /\ knowledge_base' = <<>>
    /\ error' = ""
    /\ results' = <<>>
    /\ extracted' = <<>>
    /\ triggers' = {}
    /\ produced' = {}
    /\ remote_summaries' = 0
    /\ blank_reply' = FALSE
    /\ saved_pages' = 0
    /\ written' = [interval |-> 0, final |-> 0]
    /\ last_call' = NoCall
    /\ prev_summaries' = summaries
    /\ UNCHANGED <<cfg, disk, from_empty, json_text>>

Step ==
    \/ Confirm
    \/ setup_directories
    \/ load_existing_knowledge
    \/ OpenDocument
    \/ ForLoop
    \/ Extract
    \/ Classify
    \/ SaveOpen
    \/ SaveDump
    \/ IntervalSkip
    \/ IntervalAnalysis
    \/ FinalSkip
    \/ FinalAnalysis

\* one process invocation
SingleRun ==
    \/ Step
    \/ Cancel
    \/ ClassifyFails
    \/ AnalysisFails
    \/ Kill

Next ==
    \/ SingleRun
    \/ Rerun

Spec == Init /\ [][Next]_vars

\* one invocation of the script: the interpreter keeps executing a started
\* process, so its own steps are weakly fair; failures and kills are not
FairSpec == Init /\ [][SingleRun]_vars /\ WF_vars(Step)

\* ----------------------------------------------------------- SpecWriter
OldContent == [title |-> "meditations.pdf", generated |-> 0, body |-> "old"]

LeftNames == { SummaryPath(f, n) : f \in BOOLEAN, n \in 1..MaxNum }

LeftDirs == { [f \in names |-> OldContent] : names \in SUBSET LeftNames }

InitWriter ==
    /\ ANALYSIS_INTERVAL = DefaultInterval
    /\ TEST_PAGES = DefaultTestPages
    /\ page_count = DefaultTestPages
    /\ pc = "writer"
    /\ run = 1
    /\ Fresh
    /\ knowledge_file = Absent
    /\ summaries \in LeftDirs
    /\ pdf_staged = TRUE
    /\ source_pdf = TRUE
    /\ prev_summaries = EmptyDir
    /\ from_empty = (summaries = EmptyDir)
    /\ json_text = <<>>

\* one call of save_summary
WriterCall ==
    /\ pc = "writer"
    /\ \E text \in Texts \cup {""}, is_final \in BOOLEAN, now \in Times :
        /\ text # "" => written[Kind(is_final)] < MaxWrites
        /\ summaries' = save_summary(summaries, text, is_final, now)
        /\ written' = IF text # ""
                      THEN [written EXCEPT ![Kind(is_final)] = @ + 1]
                      ELSE written
        /\ last_call' = [summary |-> text, is_final |-> is_final]
    /\ UNCHANGED <<cfg, proc, knowledge_file, pdf_staged, source_pdf,
                   results, extracted, triggers, produced, remote_summaries,
                   blank_reply, saved_pages, run, prev_summaries, from_empty, json_text>>

\* the calling process ends and another one continues with the directory
WriterRestart ==
    /\ pc = "writer"
    /\ run < MaxRuns
    /\ run' = run + 1
    /\ UNCHANGED <<cfg, proc, disk, hist, prev_summaries, from_empty, json_text>>

NextWriter ==
    \/ WriterCall
    \/ WriterRestart

SpecWriter == InitWriter /\ [][NextWriter]_vars

\* ------------------------------------------------------------ SpecStore
\* Characters a knowledge string is made of here: a letter, the double
\* quote, the backslash, the line feed and a non-ASCII letter.
Chars == {"n", "quote", "backslash", "newline", "eacute"}

\* the key of the JSON object, as characters
KnowledgeKey == <<"k", "n", "o", "w", "l", "e", "d", "g", "e">>

\* variant: characters are written as they are
EscapeChar_Raw(c) == <<c>>

\* json.dump with ensure_ascii, one character of a string
EscapeChar(c) ==
    IF c = "quote" THEN <<"backslash", "quote">>
    ELSE IF c = "backslash" THEN <<"backslash", "backslash">>
    ELSE IF c = "newline" THEN <<"backslash", "n">>
    ELSE IF c = "eacute" THEN <<"backslash", "u", "0", "0", "e", "9">>
    ELSE <<c>>

RECURSIVE EscapeAll(_)
EscapeAll(str) ==
    IF str = <<>> THEN <<>>
    ELSE EscapeChar(str[1]) \o EscapeAll(SubSeq(str, 2, Len(str)))

EncodeString(str) == <<"quote">> \o EscapeAll(str) \o <<"quote">>

\* the items of a list with indent=2: one per line, separated by commas
RECURSIVE EncodeItems(_)
EncodeItems(list) ==
    IF list = <<>> THEN <<>>
    ELSE <<"newline", "sp", "sp", "sp", "sp">> \o EncodeString(list[1])
         \o (IF Len(list) > 1 THEN <<",">> ELSE <<>>)
         \o EncodeItems(SubSeq(list, 2, Len(list)))

EncodeList(list) ==
    IF list = <<>> THEN <<"[", "]">>
    ELSE <<"[">> \o EncodeItems(list) \o <<"newline", "sp", "sp", "]">>

\* json.dump({"knowledge": knowledge_base}, f, indent=2)
json_dump(list) ==
    <<"{", "newline", "sp", "sp">> \o EncodeString(KnowledgeKey)
        \o <<":", "sp">> \o EncodeList(list) \o <<"newline", "}">>

Failed == [ok |-> FALSE, value |-> <<>>, next |-> 0]

RECURSIVE SkipWs(_, _)
SkipWs(t, i) ==
    IF i <= Len(t) /\ t[i] \in {"sp", "newline"} THEN SkipWs(t, i + 1) ELSE i

\* the characters of a JSON string from position i, after the opening quote
RECURSIVE ScanString(_, _, _)
ScanString(t, i, acc) ==
    IF i > Len(t) THEN Failed
    ELSE IF t[i] = "quote" THEN [ok |-> TRUE, value |-> acc, next |-> i + 1]
    ELSE IF t[i] = "newline" THEN Failed
    ELSE IF t[i] = "backslash"
         THEN IF i + 1 > Len(t) THEN Failed
              ELSE IF t[i + 1] = "quote"
                   THEN ScanString(t, i + 2, Append(acc, "quote"))
              ELSE IF t[i + 1] = "backslash"
                   THEN ScanString(t, i + 2, Append(acc, "backslash"))
              ELSE IF t[i + 1] = "n"
                   THEN ScanString(t, i + 2, Append(acc, "newline"))
              ELSE IF t[i + 1] = "u" /\ i + 5 <= Len(t)
                        /\ SubSeq(t, i + 2, i + 5) = <<"0", "0", "e", "9">>
                   THEN ScanString(t, i + 6, Append(acc, "eacute"))
              ELSE Failed
    ELSE ScanString(t, i + 1, Append(acc, t[i]))

ParseString(t, i) ==
    IF i <= Len(t) /\ t[i] = "quote" THEN ScanString(t, i + 1, <<>>) ELSE Failed

\* the items of a JSON array from position i, after "[" or ","
RECURSIVE ParseItems(_, _, _)
ParseItems(t, i, acc) ==
    LET item == ParseString(t, SkipWs(t, i))
        j == SkipWs(t, item.next)
    IN  IF ~item.ok \/ j > Len(t) THEN Failed
        ELSE IF t[j] = "," THEN ParseItems(t, j + 1, Append(acc, item.value))
        ELSE IF t[j] = "]"
             THEN [ok |-> TRUE, value |-> Append(acc, item.value), next |-> j + 1]
        ELSE Failed

ParseList(t, i) ==
    IF i > Len(t) \/ t[i] # "[" THEN Failed
    ELSE LET j == SkipWs(t, i + 1)
         IN  IF j <= Len(t) /\ t[j] = "]"
             THEN [ok |-> TRUE, value |-> <<>>, next |-> j + 1]
             ELSE ParseItems(t, i + 1, <<>>)

\* json.load of an object with one key: [ok, key, value]
json_load(t) ==
    LET bad == [ok |-> FALSE, key |-> <<>>, value |-> <<>>]
        i == SkipWs(t, 1)
    IN  IF i > Len(t) \/ t[i] # "{" THEN bad
        ELSE LET key == ParseString(t, SkipWs(t, i + 1))
                 c == SkipWs(t, key.next)
             IN  IF ~key.ok \/ c > Len(t) \/ t[c] # ":" THEN bad
                 ELSE LET list == ParseList(t, SkipWs(t, c + 1))
                          e == SkipWs(t, list.next)
                      IN  IF ~list.ok \/ e > Len(t) \/ t[e] # "}" THEN bad
                          ELSE IF SkipWs(t, e + 1) <= Len(t) THEN bad
                          ELSE [ok |-> TRUE, key |-> key.value,
                                value |-> list.value]

RECURSIVE TotalChars(_)
TotalChars(list) ==
    IF list = <<>> THEN 0 ELSE Len(list[1]) + TotalChars(SubSeq(list, 2, Len(list)))

OldList == << <<"n">> >>

InitStore ==
    /\ ANALYSIS_INTERVAL = DefaultInterval
    /\ TEST_PAGES = DefaultTestPages
    /\ page_count = DefaultTestPages
    /\ pc = "store_build"
    /\ run = 1
    /\ Fresh
    /\ \/ knowledge_file = Absent /\ json_text = <<>>
       \/ knowledge_file = Truncated /\ json_text = <<>>
       \/ knowledge_file = JsonFile(OldList) /\ json_text = json_dump(OldList)
    /\ summaries = EmptyDir
    /\ pdf_staged = TRUE
    /\ source_pdf = TRUE
    /\ prev_summaries = EmptyDir
    /\ from_empty = TRUE

StoreFrame ==
    UNCHANGED <<cfg, page_num, pages_to_process, summaries, pdf_staged,
                source_pdf, hist, prev_summaries, from_empty>>

\* the caller starts another string of the list it is going to save
StoreNewString ==
    /\ pc = "store_build"
    /\ Len(knowledge_base) < MaxList
    /\ knowledge_base' = Append(knowledge_base, <<>>)
    /\ UNCHANGED <<pc, run, error, knowledge_file, json_text>>
    /\ StoreFrame

\* the caller adds a character to the last string of the list
StoreAppendChar ==
    /\ pc = "store_build"
    /\ knowledge_base # <<>>
    /\ TotalChars(knowledge_base) < MaxChars
    /\ \E c \in Chars :
           knowledge_base' =
               [knowledge_base EXCEPT ![Len(knowledge_base)] = Append(@, c)]
    /\ UNCHANGED <<pc, run, error, knowledge_file, json_text>>
    /\ StoreFrame

\* save_knowledge_base(knowledge_base) up to open(output_path, 'w')
StoreSaveOpen ==
    /\ pc = "store_build"
    /\ knowledge_file' = Truncated
    /\ json_text' = <<>>
    /\ pc' = "store_dump"
    /\ UNCHANGED <<run, error, knowledge_base>>
    /\ StoreFrame

\* json.dump and close
StoreSaveDump ==
    /\ pc = "store_dump"
    /\ knowledge_file' = JsonFile(knowledge_base)
    /\ json_text' = json_dump(knowledge_base)
    /\ pc' = "store_saved"
    /\ UNCHANGED <<run, error, knowledge_base>>
    /\ StoreFrame

\* the saving process ends; another one is going to load
StoreRestart ==
    /\ pc = "store_saved"
    /\ run < MaxRuns
    /\ run' = run + 1
    /\ knowledge_base' = <<>>
    /\ UNCHANGED <<pc, error, knowledge_file, json_text>>
    /\ StoreFrame

\* load_existing_knowledge()
StoreLoad ==
    /\ pc = "store_saved"
    /\ LET data == json_load(json_text)
       IN  IF ~knowledge_file.exists
           THEN knowledge_base' = <<>> /\ pc' = "store_loaded" /\ error' = error
           ELSE IF ~data.ok
                THEN knowledge_base' = knowledge_base /\ pc' = "raised"
                     /\ error' = "JSONDecodeError"
           ELSE IF data.key # KnowledgeKey
                THEN knowledge_base' = knowledge_base /\ pc' = "raised"
                     /\ error' = "KeyError"
           ELSE knowledge_base' = data.value /\ pc' = "store_loaded"
                /\ error' = error
    /\ UNCHANGED <<run, knowledge_file, json_text>>
    /\ StoreFrame

NextStore ==
    \/ StoreNewString
    \/ StoreAppendChar
    \/ StoreSaveOpen
    \/ StoreSaveDump
    \/ StoreRestart
    \/ StoreLoad

SpecStore == InitStore /\ [][NextStore]_vars

\* ================================================================ claims
IsList(file) == file.exists /\ file.valid

\* the concatenation, in page order, of the knowledge of the pages with content
RECURSIVE ExpectedKnowledge(_)
ExpectedKnowledge(rs) ==
    IF rs = <<>> THEN <<>>
    ELSE LET last == rs[Len(rs)]
             front == ExpectedKnowledge(SubSeq(rs, 1, Len(rs) - 1))
         IN  IF last.has_content THEN front \o last.knowledge ELSE front

IsPrefix(s, t) == Len(s) <= Len(t) /\ SubSeq(t, 1, Len(s)) = s

FinalFiles == {x \in produced : x[2] = "final"}

\* C1: right after process_page has returned for page i, the knowledge file
\* holds exactly the concatenation, in page order, of the knowledge lists of
\* the pages 0..i answered with has_content = true.
C1_FileIsConcatenation ==
    pc = "interval" =>
        /\ Len(results) = page_num + 1
        /\ extracted = [i \in 1..(page_num + 1) |-> i - 1]
        /\ IsList(knowledge_file)
        /\ knowledge_file.knowledge = ExpectedKnowledge(results)

C1_Witness ==
    /\ pc = "interval"
    /\ page_num = 1
    /\ results[1] = [has_content |-> FALSE, knowledge |-> <<"d">>]
    /\ results[2] = [has_content |-> TRUE, knowledge |-> <<"a", "b">>]
    /\ IsList(knowledge_file)
    /\ knowledge_file.knowledge = <<"a", "b">>

\* C2: a run that completes with a non-empty knowledge base has written
\* exactly one final summary file (the summarizer having answered with text).
C2_OneFinalSummary ==
    (pc = "done" /\ knowledge_base # <<>> /\ ~blank_reply) =>
        (written.final = 1 /\ Cardinality(FinalFiles) = 1)

\* C3: no interval summary is produced for the last page the run processes,
\* and no page gets both an interval and a final summary.
C3_NoIntervalOnLastPage ==
    \A x \in produced :
        /\ x[2] = "interval" => x[1] # Min(PagesToProcess, page_count) - 1
        /\ ~(<<x[1], "interval">> \in produced /\ <<x[1], "final">> \in produced)

\* C4: after a processed page i that is not the last processed one, the
\* interval analysis is invoked iff an interval K is configured and
\* (i+1) mod K = 0; with K = 20 and 60 processed pages the analyses are the
\* interval ones after pages 20 and 40 and the final one after page 60.
C4_IntervalTriggers ==
    /\ \A i \in 0..(Min(PagesToProcess, page_count) - 2) :
           (i < page_num \/ (i = page_num /\ pc = "final")) =>
               (<<i, "interval">> \in triggers
                  <=> (Truthy(ANALYSIS_INTERVAL) /\ (i + 1) % ANALYSIS_INTERVAL = 0))
    /\ (pc = "done" /\ ANALYSIS_INTERVAL = DefaultInterval
            /\ Len(extracted) = DefaultTestPages) =>
           triggers = {<<19, "interval">>, <<39, "interval">>, <<59, "final">>}

\* C5: once the save for page i has completed, a kill at any later point of
\* the run leaves a knowledge file that contains the contributions of 0..i.
C5_CrashKeepsSavedPages ==
    (pc = "killed" /\ saved_pages > 0) =>
        /\ IsList(knowledge_file)
        /\ IsPrefix(ExpectedKnowledge(SubSeq(results, 1, saved_pages)),
                    knowledge_file.knowledge)

\* C6: from an empty directory, N calls of one kind with text, interleaved
\* with calls of the other kind and with empty calls, over any number of
\* process invocations, leave the files of that kind numbered 001..00N.
C6_NumberedWithoutGaps ==
    from_empty =>
        /\ \A k \in {"interval", "final"} :
               {f \in DOMAIN summaries : f[1] = k}
                   = { <<k, <<0, 0, n>> >> : n \in 1..written[k] }
        /\ \A f \in DOMAIN summaries : f[1] \in {"interval", "final"}

C6_Witness ==
    /\ pc = "writer"
    /\ from_empty
    /\ written = [interval |-> 2, final |-> 2]
    /\ last_call.summary = ""
    /\ run = 2

\* C7: every summary file that exists when a run of main ends still exists,
\* with unchanged content, when a later run has completed.
C7_HistoryKeptAcrossRuns ==
    (run > 1 /\ pc = "done") =>
        \A f \in DOMAIN prev_summaries :
            f \in DOMAIN summaries /\ summaries[f] = prev_summaries[f]

\* C7 as amended: within a run, once setup_directories has run, no step
\* removes or changes a summary file; setup_directories itself empties the
\* summaries directory.
C7_AppendOnlyWithinRun ==
    [][ IF pc = "setup" /\ pc' \in {"load", "raised"}
        THEN DOMAIN summaries' = {}
        ELSE \A f \in DOMAIN summaries :
                 f \in DOMAIN summaries' /\ summaries'[f] = summaries[f] ]_vars

C7_Witness ==
    /\ run = 2
    /\ pc = "done"
    /\ DOMAIN prev_summaries # {}
    /\ Cardinality(DOMAIN summaries) = 2

CapBelowDocument == TEST_PAGES # None /\ TEST_PAGES < page_count

\* C8: with a cap smaller than the page count, the run reads exactly the
\* pages 0..cap-1, once each and in increasing order, never a page >= cap,
\* and ends (Done, unless a remote call raises or the process is killed).
C8_CapTruncates ==
    /\ [](CapBelowDocument =>
            /\ \A i \in 1..Len(extracted) :
                   extracted[i] = i - 1 /\ extracted[i] < TEST_PAGES
            /\ Len(results) <= TEST_PAGES
            /\ pc = "done" => (Len(extracted) = TEST_PAGES
                               /\ Len(results) = TEST_PAGES))
    /\ ((CapBelowDocument /\ pc = "loop" /\ page_num = 0)
            ~> (pc \in {"done", "raised", "killed"}))

C8_Witness ==
    /\ pc = "done"
    /\ CapBelowDocument
    /\ TEST_PAGES >= 1
    /\ extracted = [i \in 1..TEST_PAGES |-> i - 1]

AllSkipped == \A i \in 1..Len(results) : ~results[i].has_content

\* C9: while every classified page was answered has_content = false, the
\* persisted list is empty after every page, the remote summarizer is not
\* called at any trigger, no summary file is created, and nothing raises
\* in the analysis.
C9_NothingToSummarize ==
    AllSkipped =>
        /\ remote_summaries = 0
        /\ produced = {}
        /\ error # "SummarizerError"
        /\ pc \in {"interval", "final", "loop", "extract", "classify", "save",
                   "dump", "done"} => summaries = EmptyDir
        /\ (saved_pages > 0 /\ pc \in {"interval", "final", "loop", "extract",
                                        "classify", "save", "done"})
               => knowledge_file = JsonFile(<<>>)

C9_Witness ==
    /\ pc = "done"
    /\ Len(results) = 2
    /\ AllSkipped
    /\ results[1].knowledge # <<>>
    /\ triggers = {<<0, "interval">>, <<1, "final">>}

\* C10: a save_summary call with empty text, of either kind, creates no file
\* and leaves every file of the summaries directory as it was, so the next
\* number of each kind is the same as before the call.
C10_EmptyTextIsNoOp ==
    [][ last_call'.summary = "" =>
            /\ summaries' = summaries
            /\ \A k \in {"interval", "final"} :
                   Cardinality({f \in DOMAIN summaries' : f[1] = k})
                       = Cardinality({f \in DOMAIN summaries : f[1] = k}) ]_vars

C10_Witness ==
    /\ pc = "writer"
    /\ last_call = [summary |-> "", is_final |-> TRUE]
    /\ Cardinality(DOMAIN summaries) >= 2
    /\ written.final >= 1

NoProcessing ==
    /\ extracted = <<>>
    /\ results = <<>>
    /\ triggers = {}
    /\ remote_summaries = 0
    /\ produced = {}
    /\ saved_pages = 0
    /\ written = [interval |-> 0, final |-> 0]

\* C12: with the document neither at the staged path nor at the fallback
\* location, a run that gets past the prompt ends in setup with the
\* missing-source error, before any page is extracted, any remote call is
\* made and any knowledge or summary file is written.
C12_MissingSourceStopsInSetup ==
    /\ (~pdf_staged /\ ~source_pdf /\ pc \notin {"prompt", "setup", "cancelled", "killed"})
           => (pc = "raised" /\ error = "FileNotFoundError")
    /\ error = "FileNotFoundError" =>
           /\ pc = "raised"
           /\ NoProcessing
           /\ ~knowledge_file.exists
           /\ DOMAIN summaries = {}
           /\ pages_to_process = None

C12_Witness ==
    /\ pc = "raised"
    /\ error = "FileNotFoundError"
    /\ ~pdf_staged
    /\ ~source_pdf
    /\ run = 2

\* C13: a cancellation at the confirmation prompt ends main without deleting,
\* creating or changing any file and without any remote call: the knowledge
\* file, the summaries directory and the staged document are as they were.
C13_CancelHasNoEffect ==
    /\ [](pc = "cancelled" => (NoProcessing /\ summaries = prev_summaries
                                /\ error = ""))
    /\ [][(pc = "prompt" /\ pc' = "cancelled") => UNCHANGED <<disk, hist>>]_vars

C13_Witness ==
    /\ pc = "cancelled"
    /\ run = 2
    /\ knowledge_file.exists
    /\ DOMAIN summaries # {}

\* C14: when the classifier call for page i raises, the run ends there: no
\* page after i is extracted or classified, no further analysis is made, and
\* the knowledge file is left as the save of page i-1 wrote it, holding the
\* contributions of the pages 0..i-1 (no file yet when i = 0).
C14_ClassifierFailureEndsRun ==
    /\ [](error = "ClassifierError" =>
            /\ pc = "raised"
            /\ Len(extracted) = page_num + 1
            /\ Len(results) = page_num
            /\ saved_pages = page_num
            /\ \A t \in triggers : t[1] < page_num
            /\ IF page_num = 0
               THEN ~knowledge_file.exists
               ELSE /\ IsList(knowledge_file)
                    /\ knowledge_file.knowledge = ExpectedKnowledge(results))
    /\ [][(pc = "classify" /\ pc' = "raised") =>
              UNCHANGED <<disk, knowledge_base, results, triggers, produced>>]_vars
    /\ [][pc = "raised" => run' = run + 1]_vars

C14_Witness ==
    /\ error = "ClassifierError"
    /\ page_num = 1
    /\ knowledge_file.knowledge = <<"a", "b">>
    /\ <<0, "interval">> \in produced

AfterSetup == {"load", "open", "loop", "extract", "classify", "save", "dump",
               "interval", "final", "done"}

\* C15: a run that gets past the prompt starts from empty output
\* directories: setup_directories removes every file before the knowledge
\* base is loaded, so the loaded list is empty and the knowledge file and the
\* summaries directory only ever hold what the current run wrote.
C15_RunStartsEmpty ==
    /\ [](pc = "load" => (~knowledge_file.exists /\ DOMAIN summaries = {}))
    /\ [](pc = "open" => knowledge_base = <<>>)
    /\ [](pc \in AfterSetup =>
            /\ \A k \in {"interval", "final"} :
                   Cardinality({f \in DOMAIN summaries : f[1] = k}) = written[k]
            /\ Cardinality(DOMAIN summaries) = Cardinality(produced)
            /\ IsList(knowledge_file) =>
                   knowledge_file.knowledge
                       = ExpectedKnowledge(SubSeq(results, 1, saved_pages)))
    /\ [][(pc = "setup" /\ pc' \in {"load", "raised"}) =>
              (~knowledge_file'.exists /\ DOMAIN summaries' = {})]_vars

C15_Witness ==
    /\ run = 2
    /\ pc = "open"
    /\ knowledge_base = <<>>
    /\ Cardinality(DOMAIN prev_summaries) = 2

\* C16: for any set of numbered files already in the summaries directory,
\* a save_summary call with text writes to a name that did not exist and
\* leaves every existing file as it was.
C16_NeverOverwrites ==
    [][ written' # written =>
            /\ \A f \in DOMAIN summaries :
                   f \in DOMAIN summaries' /\ summaries'[f] = summaries[f]
            /\ Cardinality(DOMAIN summaries') = Cardinality(DOMAIN summaries) + 1
      ]_vars

\* C17: within a run the events of page i come in the order extract(i),
\* classify(i), save of the list including page i, analysis triggered at
\* page i (if any), and only then extract(i+1); the list handed to the
\* analysis at page i is the one accumulated over the pages 0..i and equals
\* what the knowledge file holds at that moment.
C17_SequentialOrder ==
    /\ [][ (extracted' # extracted /\ run' = run) =>
               /\ extracted' = Append(extracted, page_num)
               /\ Len(extracted) = page_num
               /\ Len(results) = page_num
               /\ saved_pages = page_num
               /\ \A t \in triggers : t[1] < page_num ]_vars
    /\ [][ (results' # results /\ run' = run) =>
               /\ Len(extracted) = page_num + 1
               /\ Len(results) = page_num
               /\ saved_pages = page_num ]_vars
    /\ [][ (saved_pages' # saved_pages /\ run' = run) =>
               /\ Len(results) = page_num + 1
               /\ saved_pages = page_num
               /\ knowledge_file' = JsonFile(ExpectedKnowledge(results))
               /\ \A t \in triggers : t[1] < page_num ]_vars
    /\ [][ (triggers' # triggers /\ run' = run) =>
               /\ triggers' \ triggers \in {{<<page_num, "interval">>},
                                            {<<page_num, "final">>}}
               /\ Len(extracted) = page_num + 1
               /\ saved_pages = page_num + 1
               /\ knowledge_base = ExpectedKnowledge(results)
               /\ IsList(knowledge_file)
               /\ knowledge_file.knowledge = knowledge_base ]_vars

C17_Witness ==
    /\ pc = "classify"
    /\ page_num = 1
    /\ extracted = <<0, 1>>
    /\ triggers = {<<0, "interval">>}
    /\ knowledge_base = <<"c">>
    /\ remote_summaries = 1

\* C11: for every list of strings, the empty one and lists with duplicates
\* included, save_knowledge_base of the list followed by
\* load_existing_knowledge returns an equal list, whatever the file held
\* before the save.
C11_SaveLoadRoundTrip ==
    /\ pc = "store_loaded" =>
           (knowledge_base = knowledge_file.knowledge /\ error = "")
    /\ pc \in {"store_saved", "store_loaded"} =>
           (IsList(knowledge_file) /\ json_load(json_text).ok)
    /\ pc # "raised"

C11_Witness ==
    /\ pc = "store_loaded"
    /\ run = 2
    /\ knowledge_base = << <<"quote">>, <<"quote">> >>

====
